---- MODULE Spec2Model ----
(***************************************************************************)
(* Model of TechDocsCore.on_config (src/src/core.py): the configuration    *)
(* pass that forces the theme, swaps the plugin's own registry entry for   *)
(* the search and monorepo plugins, and merges the required Markdown       *)
(* extensions and their options into the build configuration.              *)
(*                                                                         *)
(* Python values are encoded as follows.  A dict is a function whose       *)
(* domain is a set of strings.  A list is a sequence.  An option value of  *)
(* an extension is V(s) for a scalar (s is the printed scalar: "True",     *)
(* "all", "to_svg", ...) or D(f) for a nested dict f, so that isinstance   *)
(* (value, dict) can be decided.  An object (a plugin instance) carries    *)
(* the identity it was given at construction.                              *)
(***************************************************************************)
EXTENDS Integers, Sequences, FiniteSets, TLC

VARIABLES config, tmp_dir_techdocs_theme, pre, status, runs, nextId

vars == <<config, tmp_dir_techdocs_theme, pre, status, runs, nextId>>

(* ---------------------------------------------------------------- bounds *)
MaxLen == 2

MaxRuns == 2

(* ------------------------------------------------------- Python builtins *)
V(s) == [val |-> s]

D(f) == [dict |-> f]

IsDict(v) == "dict" \in DOMAIN v

EmptyDict == <<>>

SetKey(d, k, v) == [x \in DOMAIN d \cup {k} |-> IF x = k THEN v ELSE d[x]]

DelKey(d, k) == [x \in DOMAIN d \ {k} |-> d[x]]

(* Variant: keys already present keep their value (setdefault semantics). *)
UpdateKeepExisting(d, e) ==
    [x \in DOMAIN d \cup DOMAIN e |-> IF x \in DOMAIN d THEN d[x] ELSE e[x]]

Update(d, e) == [x \in DOMAIN d \cup DOMAIN e |-> IF x \in DOMAIN e THEN e[x] ELSE d[x]]

Contains(list, x) == \E i \in 1..Len(list) : list[i] = x

Count(list, x) == Cardinality({i \in 1..Len(list) : list[i] = x})

(* ------------------------------------------------------------- constants *)
TECHDOCS_DEFAULT_THEME == "material"

METADATA_FILE == "techdocs_metadata.json"

METADATA_TEMPLATE ==
    "{{ {site_name: (config.site_name | string), site_description: (config.site_description | string)} | tojson }}"

core_configs ==
    [x \in {"pymdownx.snippets"} |-> D([y \in {"restrict_base_path"} |-> V("True")])]

extra_extensions ==
    << "pymdownx.betterem",
       "pymdownx.superfences",
       "markdown.extensions.footnotes",
       "markdown.extensions.attr_list",
       "markdown.extensions.def_list",
       "markdown.extensions.tables",
       "markdown.extensions.abbr",
       "markdown.extensions.md_in_html" >>

One(k, v) == [x \in {k} |-> v]

RequiredExtensions ==
    << <<"admonition", EmptyDict>>,
       <<"toc", One("permalink", V("True"))>>,
       <<"pymdownx.caret", EmptyDict>>,
       <<"pymdownx.critic", EmptyDict>>,
       <<"pymdownx.details", EmptyDict>>,
       <<"pymdownx.emoji", One("emoji_generator", V("to_svg"))>>,
       <<"pymdownx.inlinehilite", EmptyDict>>,
       <<"pymdownx.magiclink", EmptyDict>>,
       <<"pymdownx.mark", EmptyDict>>,
       <<"pymdownx.smartsymbols", EmptyDict>>,
       <<"pymdownx.snippets", EmptyDict>>,
       <<"pymdownx.highlight",
         [x \in {"linenums", "pygments_lang_class"} |-> V("True")]>>,
       <<"pymdownx.extra", One("smart_enable", V("all"))>>,
       <<"pymdownx.tabbed", One("alternate_style", V("True"))>>,
       <<"pymdownx.tasklist", One("custom_checkbox", V("True"))>>,
       <<"pymdownx.tilde", EmptyDict>>,
       <<"markdown_inline_graphviz", EmptyDict>>,
       <<"plantuml_markdown", EmptyDict>>,
       <<"mdx_truly_sane_lists", EmptyDict>> >>

(* Variant: a value the user already set is kept. *)
merge_configs_user_wins(core, user) ==
    [key \in DOMAIN user \cup DOMAIN core |->
        IF key \in DOMAIN user THEN user[key] ELSE core[key]]

(* ------------------------------------------------------ merge_configs    *)
RECURSIVE merge_configs(_, _)
merge_configs(core, user) ==
    [key \in DOMAIN user \cup DOMAIN core |->
        IF key \in DOMAIN core
        THEN IF IsDict(core[key]) /\ key \in DOMAIN user
             THEN D(merge_configs(core[key].dict, user[key].dict))
             ELSE core[key]
        ELSE user[key]]

ApplyCoreConfigs(c) ==
    LET c1 == IF "mdx_configs" \notin DOMAIN c
              THEN SetKey(c, "mdx_configs", EmptyDict)
              ELSE c
    IN  SetKey(c1, "mdx_configs", merge_configs(core_configs, c1["mdx_configs"]))

(* ------------------------------------------------------------ theme step *)
Theme(name, vars0) ==
    [name |-> name,
     vars |-> vars0,
     static_templates |-> {"404.html", "sitemap.xml"},
     dirs |-> <<"theme_dir", "mkdocs_templates">>]

(* Variant: only the first flag is appended. *)
AppendFeaturesFooterOnly(features) == Append(features, "navigation.footer")

(* Variant: a flag is appended only when the list lacks it. *)
AppendFeaturesDedup(features) ==
    LET has(l, x) == \E i \in 1..Len(l) : l[i] = x
        f1 == IF has(features, "navigation.footer")
              THEN features
              ELSE Append(features, "navigation.footer")
    IN  IF has(f1, "content.action.edit") THEN f1 ELSE Append(f1, "content.action.edit")

AppendFeatures(features) ==
    Append(Append(features, "navigation.footer"), "content.action.edit")

ThemeStep(c, freshVars, tmpName) ==
    LET t0 == IF c["theme"].name # TECHDOCS_DEFAULT_THEME
              THEN Theme(TECHDOCS_DEFAULT_THEME, freshVars)
              ELSE c["theme"]
        v1 == IF "features" \notin DOMAIN t0.vars
              THEN SetKey(t0.vars, "features", <<>>)
              ELSE t0.vars
        v2 == SetKey(v1, "features", AppendFeatures(v1["features"]))
        v3 == SetKey(v2, "palette", EmptyDict)
    IN  SetKey(c, "theme",
               [name |-> t0.name,
                vars |-> v3,
                static_templates |-> t0.static_templates \cup {METADATA_FILE},
                dirs |-> Append(t0.dirs, tmpName)])

(* ----------------------------------------------------------- plugin step *)
OwnOption(plugins) ==
    LET own == plugins["techdocs-core"].config
    IN  IF "use_material_search" \in DOMAIN own
        THEN own["use_material_search"]
        ELSE FALSE

(* Variant: the option is ignored. *)
SearchClassAlwaysDefault(use_material_search) == "SearchPlugin"

SearchClass(use_material_search) ==
    IF use_material_search THEN "MaterialSearchPlugin" ELSE "SearchPlugin"

NewPlugin(cls, id) == [cls |-> cls, config |-> EmptyDict, id |-> id]

(* Variant: entries already registered under "search" and "monorepo" are kept. *)
PluginStepKeepExisting(c, id) ==
    LET use_material_search == OwnOption(c["plugins"])
        p1 == DelKey(c["plugins"], "techdocs-core")
        p2 == IF "search" \in DOMAIN p1
              THEN p1
              ELSE SetKey(p1, "search", NewPlugin(SearchClass(use_material_search), id))
        p3 == IF "monorepo" \in DOMAIN p2
              THEN p2
              ELSE SetKey(p2, "monorepo", NewPlugin("MonorepoPlugin", id + 1))
    IN  SetKey(c, "plugins", p3)

PluginStep(c, id) ==
    LET use_material_search == OwnOption(c["plugins"])
        p1 == DelKey(c["plugins"], "techdocs-core")
        search_plugin == NewPlugin(SearchClass(use_material_search), id)
        monorepo_plugin == NewPlugin("MonorepoPlugin", id + 1)
        p2 == SetKey(p1, "search", search_plugin)
        p3 == SetKey(p2, "monorepo", monorepo_plugin)
    IN  SetKey(c, "plugins", p3)

(* -------------------------------------------------------- extension step *)
MergeOptions(mdx, extension, default_config) ==
    IF extension \in DOMAIN mdx
    THEN SetKey(mdx, extension, D(Update(mdx[extension].dict, default_config)))
    ELSE SetKey(mdx, extension, D(default_config))

(* Variant: the identifier is appended without the membership test. *)
merge_extension_always_append(c, extension, default_config) ==
    SetKey(SetKey(c, "markdown_extensions", Append(c["markdown_extensions"], extension)),
           "mdx_configs", MergeOptions(c["mdx_configs"], extension, default_config))

(* Variant: a missing identifier is put in front of the list. *)
merge_extension_prepend(c, extension, default_config) ==
    LET exts == IF ~Contains(c["markdown_extensions"], extension)
                THEN <<extension>> \o c["markdown_extensions"]
                ELSE c["markdown_extensions"]
    IN  SetKey(SetKey(c, "markdown_extensions", exts),
               "mdx_configs", MergeOptions(c["mdx_configs"], extension, default_config))

(* Variant: a missing entry is created empty, without the defaults. *)
merge_extension_empty_entry(c, extension, default_config) ==
    LET exts == IF ~Contains(c["markdown_extensions"], extension)
                THEN Append(c["markdown_extensions"], extension)
                ELSE c["markdown_extensions"]
        mdx  == c["mdx_configs"]
        mdx1 == IF extension \in DOMAIN mdx
                THEN SetKey(mdx, extension, D(Update(mdx[extension].dict, default_config)))
                ELSE SetKey(mdx, extension, D(EmptyDict))
    IN  SetKey(SetKey(c, "markdown_extensions", exts), "mdx_configs", mdx1)

merge_extension(c, extension, default_config) ==
    LET exts == IF ~Contains(c["markdown_extensions"], extension)
                THEN Append(c["markdown_extensions"], extension)
                ELSE c["markdown_extensions"]
    IN  SetKey(SetKey(c, "markdown_extensions", exts),
               "mdx_configs", MergeOptions(c["mdx_configs"], extension, default_config))

RECURSIVE MergeAll(_, _)
MergeAll(c, i) ==
    IF i > Len(RequiredExtensions)
    THEN c
    ELSE MergeAll(merge_extension(c, RequiredExtensions[i][1], RequiredExtensions[i][2]), i + 1)

MergeExtensions(c) ==
    LET c1 == IF "markdown_extensions" \notin DOMAIN c
              THEN SetKey(c, "markdown_extensions", <<>>)
              ELSE c
    IN  MergeAll(c1, 1)

(* ------------------------------------------- pymdownx.extra redistribution *)
(* Variant: the top-level entry is copied but not deleted. *)
MoveUnderExtraKeepTopLevel(mdx, extension) ==
    IF extension \in DOMAIN mdx
    THEN SetKey(mdx, "pymdownx.extra",
                D(SetKey(mdx["pymdownx.extra"].dict, extension, mdx[extension])))
    ELSE mdx

MoveUnderExtra(mdx, extension) ==
    IF extension \in DOMAIN mdx
    THEN LET extra == D(SetKey(mdx["pymdownx.extra"].dict, extension, mdx[extension]))
         IN  DelKey(SetKey(mdx, "pymdownx.extra", extra), extension)
    ELSE mdx

RECURSIVE MoveAll(_, _)
MoveAll(mdx, i) ==
    IF i > Len(extra_extensions)
    THEN mdx
    ELSE MoveAll(MoveUnderExtra(mdx, extra_extensions[i]), i + 1)

Redistribute(c) ==
    LET mdx  == c["mdx_configs"]
        mdx1 == IF "pymdownx.extra" \notin DOMAIN mdx
                THEN SetKey(mdx, "pymdownx.extra", D(EmptyDict))
                ELSE mdx
    IN  SetKey(c, "mdx_configs", MoveAll(mdx1, 1))

(* -------------------------------------------------------------- on_config *)
on_config(c, freshVars, tmpName, id) ==
    LET c1 == ThemeStep(ApplyCoreConfigs(c), freshVars, tmpName)
    IN  IF "techdocs-core" \notin DOMAIN c1["plugins"]
        THEN [config |-> c1, status |-> "raised"]
        ELSE [config |-> Redistribute(MergeExtensions(PluginStep(c1, id))),
              status |-> "returned"]

(* ------------------------------------------------- input configurations *)
Opt(choice, k) == IF Len(choice) > 0 THEN {k} ELSE {}

ThemeVars(fs, ps) ==
    [x \in Opt(fs, "features") \cup Opt(ps, "palette") |->
        IF x = "features" THEN fs[1] ELSE ps[1]]

UserThemeVars ==
    { EmptyDict,
      ThemeVars(<< <<"navigation.tabs">> >>, << One("scheme", "slate") >>),
      ThemeVars(<< <<"navigation.footer", "content.action.edit">> >>, <<>>) }

UserThemes ==
    { Theme(n, v) : n \in {TECHDOCS_DEFAULT_THEME, "readthedocs"}, v \in UserThemeVars }

FreshThemeVars ==
    { EmptyDict, ThemeVars(<< <<>> >>, << One("scheme", "default") >>) }

OwnConfigs ==
    { EmptyDict,
      One("use_material_search", TRUE),
      One("use_material_search", FALSE) }

UserPlugin(cls, id) == [cls |-> cls, config |-> One("enabled", TRUE), id |-> id]

OtherPlugins ==
    [x \in {"search", "monorepo", "awesome-pages"} |->
        CASE x = "search" -> UserPlugin("MaterialSearchPlugin", 2)
          [] x = "monorepo" -> UserPlugin("MonorepoPlugin", 3)
          [] OTHER -> UserPlugin("AwesomePagesPlugin", 4)]

UserRegistries ==
    { [x \in S \cup {"techdocs-core"} |->
          IF x = "techdocs-core"
          THEN [cls |-> "TechDocsCore", config |-> own, id |-> 1]
          ELSE OtherPlugins[x]] :
        S \in { {}, {"search", "monorepo", "awesome-pages"} },
        own \in OwnConfigs }

FirstFreeId == 5

UserExtensionNames == {"toc", "attr_list"}

RECURSIVE SeqsUpTo(_)
SeqsUpTo(n) ==
    IF n = 0
    THEN { <<>> }
    ELSE LET shorter == SeqsUpTo(n - 1)
         IN  shorter \cup { Append(s, x) : s \in shorter, x \in UserExtensionNames }

UserExtensionLists == { <<>> } \cup { <<s>> : s \in SeqsUpTo(MaxLen) }

Opts(S, f) == [x \in S |-> V(f[x])]

TocOptions ==
    { <<>>, << D(Opts({"permalink", "toc_depth"}, [permalink |-> "False", toc_depth |-> "3"])) >> }

SnippetsOptions ==
    { <<>>,
      << D(One("base_path", V("docs"))) >>,
      << D(Opts({"restrict_base_path", "base_path"},
                [restrict_base_path |-> "False", base_path |-> "docs"])) >> }

SuperfencesOptions == { <<>>, << D(One("custom_fences", V("mermaid"))) >> }

ExtraOptions ==
    { <<>>,
      << D([x \in {"smart_enable", "pymdownx.superfences"} |->
              IF x = "smart_enable"
              THEN V("none")
              ELSE D(One("preserve_tabs", V("True")))]) >>,
      << D(One("pymdownx.betterem", D(One("smart_enable", V("asterisk"))))) >> }

MdxOf(toc, snip, sup, extra) ==
    [x \in Opt(toc, "toc") \cup Opt(snip, "pymdownx.snippets")
           \cup Opt(sup, "pymdownx.superfences") \cup Opt(extra, "pymdownx.extra") |->
        CASE x = "toc" -> toc[1]
          [] x = "pymdownx.snippets" -> snip[1]
          [] x = "pymdownx.superfences" -> sup[1]
          [] OTHER -> extra[1]]

UserMdxConfigs ==
    { <<>> } \cup
    { << MdxOf(toc, snip, sup, extra) >> :
        toc \in TocOptions, snip \in SnippetsOptions,
        sup \in SuperfencesOptions, extra \in ExtraOptions }

ConfigOf(theme, plugins, exts, mdx) ==
    [x \in {"theme", "plugins"} \cup Opt(exts, "markdown_extensions")
           \cup Opt(mdx, "mdx_configs") |->
        CASE x = "theme" -> theme
          [] x = "plugins" -> plugins
          [] x = "markdown_extensions" -> exts[1]
          [] OTHER -> mdx[1]]

UserConfigs ==
    { ConfigOf(t, p, e, m) :
        t \in UserThemes, p \in UserRegistries,
        e \in UserExtensionLists, m \in UserMdxConfigs }

(* ------------------------------------------------------- state machine *)
Init ==
    /\ config \in UserConfigs
    /\ tmp_dir_techdocs_theme = [name |-> "tmp_techdocs_theme", files |-> EmptyDict]
    /\ pre = config
    /\ status = "init"
    /\ runs = 0
    /\ nextId = FirstFreeId

OnConfig ==
    /\ runs < MaxRuns
    /\ \E freshVars \in FreshThemeVars :
         LET r == on_config(config, freshVars, tmp_dir_techdocs_theme.name, nextId)
         IN  /\ config' = r.config
             /\ status' = r.status
             /\ nextId' = IF r.status = "returned" THEN nextId + 2 ELSE nextId
    /\ tmp_dir_techdocs_theme' =
         [tmp_dir_techdocs_theme EXCEPT
            !.files = SetKey(@, METADATA_FILE, METADATA_TEMPLATE)]
    /\ pre' = config
    /\ runs' = runs + 1

Next == OnConfig

Spec == Init /\ [][Next]_vars

(* The extension-merge step on its own, applied repeatedly. *)
InitMerge == Init /\ "mdx_configs" \in DOMAIN config

ExtensionMerge ==
    /\ runs < MaxRuns
    /\ config' = MergeExtensions(config)
    /\ pre' = config
    /\ status' = "merged"
    /\ runs' = runs + 1
    /\ UNCHANGED <<tmp_dir_techdocs_theme, nextId>>

NextMerge == ExtensionMerge

SpecMerge == InitMerge /\ [][NextMerge]_vars

(* ------------------------------------------------------------- properties *)
Returned == status = "returned"

Merged == status = "merged"

PreMdx == IF "mdx_configs" \in DOMAIN pre THEN pre["mdx_configs"] ELSE EmptyDict

PreList == IF "markdown_extensions" \in DOMAIN pre THEN pre["markdown_extensions"] ELSE <<>>

PreOptions(x) == IF x \in DOMAIN PreMdx THEN PreMdx[x].dict ELSE EmptyDict

RequiredNames == [i \in 1..Len(RequiredExtensions) |-> RequiredExtensions[i][1]]

ExtraNames == {extra_extensions[i] : i \in 1..Len(extra_extensions)}

Features == config["theme"].vars["features"]

(* C1: whenever on_config returns, the theme is named "material", its      *)
(* features list holds "navigation.footer" and "content.action.edit", and  *)
(* its palette is the empty mapping, whatever the input theme was.         *)
C1_ThemeForced ==
    Returned =>
        /\ config["theme"].name = "material"
        /\ \E i \in 1..Len(Features) : Features[i] = "navigation.footer"
        /\ \E i \in 1..Len(Features) : Features[i] = "content.action.edit"
        /\ DOMAIN config["theme"].vars["palette"] = {}

C1_Witness ==
    /\ Returned
    /\ pre["theme"].name = "readthedocs"
    /\ "palette" \in DOMAIN pre["theme"].vars
    /\ pre["theme"].vars["features"] = <<"navigation.tabs">>

(* C2: whenever on_config returns, the registry has no "techdocs-core"     *)
(* entry, has a "search" and a "monorepo" entry that are newly constructed *)
(* objects with an empty configuration (also when the input already had    *)
(* entries under those keys), and every other entry is the input's.        *)
C2_PluginsSubstituted ==
    Returned =>
        LET P == config["plugins"]
            Q == pre["plugins"]
            oldIds == {Q[k].id : k \in DOMAIN Q}
        IN  /\ DOMAIN P = (DOMAIN Q \ {"techdocs-core"}) \cup {"search", "monorepo"}
            /\ P["search"].id \notin oldIds
            /\ P["monorepo"].id \notin oldIds
            /\ P["search"].id # P["monorepo"].id
            /\ P["search"].cls \in {"SearchPlugin", "MaterialSearchPlugin"}
            /\ P["monorepo"].cls = "MonorepoPlugin"
            /\ DOMAIN P["search"].config = {}
            /\ DOMAIN P["monorepo"].config = {}
            /\ \A k \in DOMAIN Q \ {"techdocs-core", "search", "monorepo"} : P[k] = Q[k]

C2_Witness ==
    /\ Returned
    /\ {"search", "monorepo", "awesome-pages"} \subseteq DOMAIN pre["plugins"]
    /\ config["plugins"]["search"].id # pre["plugins"]["search"].id

(* C3: the plugin installed under "search" is the Material variant exactly *)
(* when the plugin's own entry, as it was before on_config deleted it, had *)
(* use_material_search true; otherwise it is the MkDocs search plugin.     *)
C3_SearchVariant ==
    Returned =>
        LET own == pre["plugins"]["techdocs-core"].config
            wanted == "use_material_search" \in DOMAIN own /\ own["use_material_search"]
        IN  config["plugins"]["search"].cls =
                IF wanted THEN "MaterialSearchPlugin" ELSE "SearchPlugin"

C3_Witness ==
    /\ Returned
    /\ "use_material_search" \in DOMAIN pre["plugins"]["techdocs-core"].config
    /\ pre["plugins"]["techdocs-core"].config["use_material_search"]
    /\ config["plugins"]["search"].cls = "MaterialSearchPlugin"

(* C4: whenever on_config returns, mdx_configs["pymdownx.snippets"]        *)
(* ["restrict_base_path"] is True, whatever mdx_configs the input had, and *)
(* the user's other snippets options are kept.                             *)
C4_RestrictBasePath ==
    Returned =>
        LET mdx == config["mdx_configs"]
            user == PreOptions("pymdownx.snippets")
        IN  /\ "pymdownx.snippets" \in DOMAIN mdx
            /\ "restrict_base_path" \in DOMAIN mdx["pymdownx.snippets"].dict
            /\ mdx["pymdownx.snippets"].dict["restrict_base_path"] = V("True")
            /\ \A k \in DOMAIN user \ {"restrict_base_path"} :
                 /\ k \in DOMAIN mdx["pymdownx.snippets"].dict
                 /\ mdx["pymdownx.snippets"].dict[k] = user[k]

C4_Witness ==
    /\ Returned
    /\ "restrict_base_path" \in DOMAIN PreOptions("pymdownx.snippets")
    /\ PreOptions("pymdownx.snippets")["restrict_base_path"] = V("False")
    /\ "base_path" \in DOMAIN config["mdx_configs"]["pymdownx.snippets"].dict

(* C5: whenever on_config returns, every identifier e of extra_extensions  *)
(* that had a top-level mdx_configs entry has none any more and            *)
(* mdx_configs["pymdownx.extra"][e] is that entry's option mapping; for an *)
(* e without a top-level entry pymdownx.extra's options for e are as the   *)
(* input had them.                                                         *)
C5_ExtraRedistributed ==
    Returned =>
        LET mdx == config["mdx_configs"]
            extra == mdx["pymdownx.extra"].dict
            userExtra == PreOptions("pymdownx.extra")
        IN  \A e \in ExtraNames :
              /\ e \notin DOMAIN mdx
              /\ IF e \in DOMAIN PreMdx
                 THEN e \in DOMAIN extra /\ extra[e] = PreMdx[e]
                 ELSE /\ e \in DOMAIN extra <=> e \in DOMAIN userExtra
                      /\ e \in DOMAIN userExtra => extra[e] = userExtra[e]

C5_Witness ==
    /\ Returned
    /\ "pymdownx.superfences" \in DOMAIN PreMdx
    /\ "pymdownx.superfences" \in DOMAIN PreOptions("pymdownx.extra")
    /\ PreOptions("pymdownx.extra")["pymdownx.superfences"] # PreMdx["pymdownx.superfences"]

(* C6 as stated: whenever on_config returns, every required identifier     *)
(* appears at most once in markdown_extensions, for any input sequence.    *)
C6_AtMostOnce ==
    Returned =>
        \A i \in 1..Len(RequiredNames) :
            Count(config["markdown_extensions"], RequiredNames[i]) <= 1

(* C6 as amended: whenever on_config returns, every required identifier    *)
(* appears in markdown_extensions once if the input listed it at most      *)
(* once, and as many times as the input listed it otherwise.               *)
C6_NoOccurrenceAdded ==
    Returned =>
        \A i \in 1..Len(RequiredNames) :
            LET before == Count(PreList, RequiredNames[i])
            IN  Count(config["markdown_extensions"], RequiredNames[i]) =
                    IF before = 0 THEN 1 ELSE before

C6_Witness ==
    /\ Returned
    /\ Count(PreList, "toc") = 2
    /\ Count(config["markdown_extensions"], "toc") = 2
    /\ Count(PreList, "admonition") = 0
    /\ Count(config["markdown_extensions"], "admonition") = 1

DefaultsOf(i) == RequiredExtensions[i][2]

CoreKeys(x) == IF x \in DOMAIN core_configs THEN DOMAIN core_configs[x].dict ELSE {}

(* C7 as stated: whenever on_config returns, for every required x,         *)
(* mdx_configs[x] exists, maps every default key to its default value, and *)
(* keeps every user option of x under a key that is neither a default key  *)
(* nor a core-override key.                                                *)
C7_DefaultsAndUserOptions ==
    Returned =>
        \A i \in 1..Len(RequiredNames) :
            LET x == RequiredNames[i]
                user == PreOptions(x)
            IN  /\ x \in DOMAIN config["mdx_configs"]
                /\ \A k \in DOMAIN DefaultsOf(i) :
                     /\ k \in DOMAIN config["mdx_configs"][x].dict
                     /\ config["mdx_configs"][x].dict[k] = DefaultsOf(i)[k]
                /\ \A k \in DOMAIN user \ (DOMAIN DefaultsOf(i) \cup CoreKeys(x)) :
                     /\ k \in DOMAIN config["mdx_configs"][x].dict
                     /\ config["mdx_configs"][x].dict[k] = user[k]

Redistributed(x) ==
    IF x = "pymdownx.extra" THEN ExtraNames \cap DOMAIN PreMdx ELSE {}

(* C7 as amended: as stated, except that a user option of pymdownx.extra   *)
(* whose key names an extra sub-extension with a top-level mdx_configs     *)
(* entry is replaced by that top-level entry's option mapping.             *)
C7_DefaultsAndOtherUserOptions ==
    Returned =>
        \A i \in 1..Len(RequiredNames) :
            LET x == RequiredNames[i]
                user == PreOptions(x)
                now == config["mdx_configs"][x].dict
            IN  /\ x \in DOMAIN config["mdx_configs"]
                /\ \A k \in DOMAIN DefaultsOf(i) : k \in DOMAIN now /\ now[k] = DefaultsOf(i)[k]
                /\ \A k \in DOMAIN user \ (DOMAIN DefaultsOf(i) \cup CoreKeys(x)) :
                     /\ k \in DOMAIN now
                     /\ now[k] = IF k \in Redistributed(x) THEN PreMdx[k] ELSE user[k]

C7_Witness ==
    /\ Returned
    /\ "toc" \in DOMAIN PreMdx
    /\ PreMdx["toc"].dict["permalink"] = V("False")
    /\ config["mdx_configs"]["toc"].dict["permalink"] = V("True")
    /\ config["mdx_configs"]["toc"].dict["toc_depth"] = V("3")
    /\ "pymdownx.superfences" \in DOMAIN PreMdx
    /\ "pymdownx.superfences" \in DOMAIN PreOptions("pymdownx.extra")

(* C8 as stated: a second application of the extension-merge step yields   *)
(* an mdx_configs that differs from the result of the first application.   *)
C8_SecondMergeDiffers ==
    (Merged /\ runs >= 2) => config["mdx_configs"] # pre["mdx_configs"]

(* C8 as amended: a second application of the extension-merge step yields  *)
(* an mdx_configs equal to the result of the first application.            *)
C8_SecondMergeSame ==
    (Merged /\ runs >= 2) => config["mdx_configs"] = pre["mdx_configs"]

C8_Witness ==
    /\ Merged
    /\ runs = 2
    /\ "toc_depth" \in DOMAIN config["mdx_configs"]["toc"].dict
    /\ config["mdx_configs"]["toc"].dict["permalink"] = V("True")

(* C9: the extension-merge step yields the input markdown_extensions       *)
(* followed by the required identifiers the input lacked, in the order of  *)
(* the merge_extension calls; a second application changes nothing.        *)
C9_AppendsMissingInOrder ==
    Merged =>
        /\ config["markdown_extensions"] =
             PreList \o SelectSeq(RequiredNames,
                                  LAMBDA x : \A j \in 1..Len(PreList) : PreList[j] # x)
        /\ runs >= 2 => config["markdown_extensions"] = PreList

C9_Witness ==
    /\ Merged
    /\ runs = 2
    /\ Len(config["markdown_extensions"]) = Len(RequiredNames) + 1
    /\ config["markdown_extensions"][1] = "attr_list"
    /\ config["markdown_extensions"][2] = "toc"
    /\ config["markdown_extensions"][3] = "admonition"

(* C10: every run of the theme step appends one "navigation.footer" and    *)
(* one "content.action.edit" to the end of the theme's features list: the  *)
(* list of a theme that was already "material" is kept and extended (so a  *)
(* list that already held them holds duplicates), the list of a newly      *)
(* constructed theme holds exactly the two.                                *)
C10_FeaturesAppended ==
    status \in {"returned", "raised"} =>
        LET old == pre["theme"]
            base == IF old.name = "material" /\ "features" \in DOMAIN old.vars
                    THEN old.vars["features"]
                    ELSE <<>>
        IN  Features = base \o <<"navigation.footer", "content.action.edit">>

C10_Witness ==
    /\ status = "raised"
    /\ runs = 2
    /\ Count(pre["theme"].vars["features"], "navigation.footer") = 2
    /\ Count(Features, "navigation.footer") = 3
    /\ Count(Features, "content.action.edit") = 3

====
